---- MODULE Spec2Model ----
(***************************************************************************)
(* Model of scripts/python/aws-ec2-ssh-config-generator/                   *)
(* ssh_config_generator.py: the managed-block merge engine (parser,        *)
(* generator, writer), list_hosts, and the main pipeline that drives them  *)
(* over a small file system.                                               *)
(*                                                                         *)
(* Lines, paths and names are strings, and the Python string functions the *)
(* code applies to them are defined character by character.  A string that *)
(* can hold line breaks (a file content, the unmanaged text, a block) is a *)
(* Text: the non-empty sequence of its lines, that is the value of         *)
(* s.split("\n") in the code; "" is <<"">> and "a\n" is <<"a", "">>.      *)
(***************************************************************************)
EXTENDS Integers, Sequences, FiniteSets, TLC

VARIABLES
    fs,                 \* path -> [content, mode] for every existing file
    dirs,               \* the directories that exist
    now,                \* datetime.now(), in seconds after the base time
    config_data,        \* the loaded configuration file (load_config)
    ssh_path,           \* the target path main() determined
    pc,                 \* position of the run inside main()/write_ssh_config_fast
    args,               \* the parsed command line of the current run
    unmanaged_content,  \* main(): first result of parse_ssh_config_fast
    existing_blocks,    \* main(): second result of parse_ssh_config_fast
    all_configs,        \* main(): accumulated blocks / new_configs of the writer
    idx,                \* main(): position of the for loop over config_data["configs"]
    final_content,      \* write_ssh_config_fast: the content built
    backup_path,        \* write_ssh_config_fast: backup file of this call, "" if none
    stdout,             \* lines printed by the dry-run preview
    exit_code,          \* exit status of the last finished run, -1 before
    runs,               \* number of runs started
    outcomes,           \* per fleet entry of this run: what discovery did
    start_fs,           \* fs when the current run started
    start_dirs,         \* dirs when the current run started
    call_target,        \* the target file when the writer was entered
    last_out,           \* content and blocks of the last completed non-dry run
    parsed_from,        \* the file content the parser read in this run
    initial_target,     \* the target file before the first run
    backed_up,          \* the contents the completed runs took a backup of
    parsed_blocks,      \* the blocks the parser's scan went through in this run
    listing,            \* the rows list_hosts printed in this run
    listed,             \* the blocks the scan of list_hosts went through
    writers,            \* two concurrent writer passes: position, content, handle
    edited              \* what another program did to the target during this run

vars == <<fs, dirs, now, config_data, ssh_path, pc, args, unmanaged_content,
          existing_blocks, all_configs, idx, final_content, backup_path, stdout,
          exit_code, runs, outcomes, start_fs, start_dirs, call_target,
          last_out, parsed_from, initial_target, backed_up, parsed_blocks, listing, listed,
                   writers, edited>>

----------------------------------------------------------------------------
(* Bounds of the model *)

MaxRuns == 2
MaxClock == 1
MaxLines == 3

----------------------------------------------------------------------------
(* Python string functions *)

Whitespace == {" ", "\t", "\n", "\r"}

Min(S) == CHOOSE m \in S : \A n \in S : m <= n

Max(S) == CHOOSE m \in S : \A n \in S : m >= n

startswith(s, p) == Len(s) >= Len(p) /\ SubSeq(s, 1, Len(p)) = p

endswith(s, p) == Len(s) >= Len(p) /\ SubSeq(s, Len(s) - Len(p) + 1, Len(s)) = p

\* p in s, for a non-empty p and a single line s
contains(s, p) ==
    \E i \in 1..(Len(s) - Len(p) + 1) :
        /\ SubSeq(s, i, i) = SubSeq(p, 1, 1)
        /\ SubSeq(s, i, i + Len(p) - 1) = p

\* the length of s[:n] without its trailing whitespace
RECURSIVE rstrip_len(_, _)
rstrip_len(s, n) ==
    IF n > 0 /\ SubSeq(s, n, n) \in Whitespace THEN rstrip_len(s, n - 1) ELSE n

\* s.rstrip() of a single line
rstrip_line(s) == SubSeq(s, 1, rstrip_len(s, Len(s)))

\* the Text of a single line
Line(s) == <<s>>

\* p in text, for a p without line break
text_contains(text, p) == \E k \in 1..Len(text) : contains(text[k], p)

\* the lines of the text that hold a character that is not whitespace
nonblank(text) == {k \in 1..Len(text) : rstrip_line(text[k]) # ""}

\* text.strip() is a non-empty string
strip_nonempty(text) == nonblank(text) # {}

\* text.rstrip(): the line breaks and the blank lines at the end go, and so
\* does the whitespace that ends the last line that stays
rstrip(text) ==
    IF nonblank(text) = {} THEN Line("")
    ELSE SubSeq(text, 1, Max(nonblank(text)) - 1)
         \o Line(rstrip_line(text[Max(nonblank(text))]))

\* "\n".join(parts) for parts that are Texts: the line break between two parts
\* separates the last line of one from the first line of the next
RECURSIVE join(_)
join(parts) ==
    IF Len(parts) = 0 THEN Line("")
    ELSE IF Len(parts) = 1 THEN parts[1]
    ELSE parts[1] \o join(Tail(parts))

\* "\n".join(lines) for single lines
join_lines(lines) == IF Len(lines) = 0 THEN Line("") ELSE lines

\* ",".join(parts)
RECURSIVE join_comma(_)
join_comma(parts) ==
    IF Len(parts) = 0 THEN ""
    ELSE IF Len(parts) = 1 THEN parts[1]
    ELSE parts[1] \o "," \o join_comma(Tail(parts))

\* the position of the last "/" of a path, 0 when there is none
last_slash(path) ==
    LET slashes == {i \in 1..Len(path) : SubSeq(path, i, i) = "/"}
    IN  IF slashes = {} THEN 0 ELSE Max(slashes)

\* pathlib: PurePath.name
path_name(path) == SubSeq(path, last_slash(path) + 1, Len(path))

\* pathlib: PurePath.parent
path_parent(path) ==
    IF last_slash(path) = 0 THEN "." ELSE SubSeq(path, 1, last_slash(path) - 1)

\* pathlib: PurePath.suffix
suffix(path) ==
    LET name == path_name(path)
        dots == {i \in 1..Len(name) : SubSeq(name, i, i) = "."}
    IN  IF dots = {} THEN ""
        ELSE IF Max(dots) > 1 /\ Max(dots) < Len(name)
             THEN SubSeq(name, Max(dots), Len(name))
             ELSE ""

\* pathlib: PurePath.with_suffix
with_suffix(path, new_suffix) ==
    SubSeq(path, 1, Len(path) - Len(suffix(path))) \o new_suffix

Digit == <<"0", "1", "2", "3", "4", "5", "6", "7", "8", "9">>

\* two decimal digits of a number below 100
Fmt2(n) == Digit[(n \div 10) + 1] \o Digit[(n % 10) + 1]

\* datetime.strftime("%Y%m%d%H%M%S") of the clock
strftime_compact(t) == "2025090212" \o Fmt2(t \div 60) \o Fmt2(t % 60)

\* datetime.strftime("%Y-%m-%d %H:%M:%S") of the clock
strftime_human(t) == "2025-09-02 12:" \o Fmt2(t \div 60) \o ":" \o Fmt2(t % 60)

----------------------------------------------------------------------------
(* parse_ssh_config_fast *)

is_begin(line) == startswith(line, "# --- BEGIN ") /\ endswith(line, " ---")

\* line[12:-4]
begin_name(line) == SubSeq(line, 13, Len(line) - 4)

end_prefix(block_name) == "# --- END " \o block_name \o " ---"

\* the inner while loop: the first index from i on whose line starts with the
\* end marker of block_name, or len(lines)+1 when there is none
skip_to_end(lines, i, block_name) ==
    LET ends == {j \in i..Len(lines) : startswith(lines[j], end_prefix(block_name))}
    IN  IF ends = {} THEN Len(lines) + 1 ELSE Min(ends)

RECURSIVE scan(_, _, _, _)
scan(lines, i, unmanaged_lines, managed_blocks) ==
    IF i > Len(lines)
    THEN [unmanaged |-> join_lines(unmanaged_lines), blocks |-> managed_blocks]
    ELSE IF is_begin(lines[i])
         THEN scan(lines, skip_to_end(lines, i, begin_name(lines[i])) + 1,
                   unmanaged_lines, managed_blocks \cup {begin_name(lines[i])})
         ELSE scan(lines, i + 1, Append(unmanaged_lines, lines[i]), managed_blocks)

\* the result for a file that exists and was read; lines = content.split("\n")
\* is the Text itself
parse_content(content) == scan(content, 1, <<>>, {})

\* the blocks the outer loop goes through, in file order: the index of the
\* begin line, the name taken from it, and the index the inner loop stopped
\* at (len(lines)+1 when it ran off the end of the file)
RECURSIVE parse_trace(_, _)
parse_trace(lines, i) ==
    IF i > Len(lines)
    THEN <<>>
    ELSE IF is_begin(lines[i])
         THEN LET block_name == begin_name(lines[i])
                  e == skip_to_end(lines, i, block_name)
              IN  <<[begin |-> i, name |-> block_name, end |-> e]>>
                  \o parse_trace(lines, e + 1)
         ELSE parse_trace(lines, i + 1)

Readable(file) == file.mode # "0000"

\* the whole function on the file system: a record with raised = TRUE when
\* open() raises
parse_ssh_config_fast(files, path) ==
    IF path \notin DOMAIN files
    THEN [raised |-> FALSE, unmanaged |-> Line(""), blocks |-> {}]
    ELSE IF ~Readable(files[path])
         THEN [raised |-> TRUE, unmanaged |-> Line(""), blocks |-> {}]
         ELSE [raised |-> FALSE,
               unmanaged |-> parse_content(files[path].content).unmanaged,
               blocks |-> parse_content(files[path].content).blocks]

----------------------------------------------------------------------------
(* generate_configs_fast *)

\* the lines "    key value" of an options map, in insertion order
option_lines(spec) ==
    IF "options" \in DOMAIN spec
    THEN [k \in 1..Len(spec.options) |->
                    "    " \o spec.options[k][1] \o " " \o spec.options[k][2]]
    ELSE <<>>

jump_alias(prefix, jump_host) == prefix \o "-jumphost-" \o jump_host.name

jump_block(prefix, jump_host) ==
    join_lines(<<"# --- BEGIN " \o jump_alias(prefix, jump_host) \o " ---",
                 "Host " \o jump_alias(prefix, jump_host),
                 "    HostName " \o jump_host.hostname,
                 "    User " \o jump_host.user,
                 "    Port " \o jump_host.port,
                 "    IdentityFile " \o jump_host.identity_file,
                 "    ServerAliveInterval 240",
                 "    ServerAliveCountMax 43200",
                 "    StrictHostKeyChecking no",
                 "    ForwardAgent yes",
                 "    AddKeysToAgent yes">>
         \o option_lines(jump_host)
         \o <<"# --- END " \o jump_alias(prefix, jump_host) \o " ---">>)

\* the block name taken from the address, as the Host alias is
instance_block_name_from_address(prefix, instance) == prefix \o "-" \o instance.ip

instance_block_name(prefix, instance) == prefix \o "-" \o instance.id

instance_host_alias(prefix, instance) == prefix \o "-" \o instance.ip

instance_block(prefix, target, proxy_jump, instance) ==
    join_lines(<<"# --- BEGIN " \o instance_block_name(prefix, instance) \o " ---",
                 "Host " \o instance_host_alias(prefix, instance),
                 "    HostName " \o instance.ip,
                 "    User " \o target.user,
                 "    Port " \o target.port,
                 "    IdentityFile " \o target.identity_file,
                 "    ProxyJump " \o proxy_jump,
                 "    ServerAliveInterval 240",
                 "    ServerAliveCountMax 43200",
                 "    Compression yes",
                 "    ForwardAgent yes",
                 "    AddKeysToAgent yes">>
         \o option_lines(target)
         \o <<"# --- END " \o instance_block_name(prefix, instance) \o " ---">>)

\* generate_configs_fast with the instance blocks before the jump-host blocks
generate_configs_fast_instances_first(instances, config) ==
    LET prefix == config.prefix
        target == config.target_hosts
        jump_hosts == config.jump_hosts
        jump_aliases == [k \in 1..Len(jump_hosts) |-> jump_alias(prefix, jump_hosts[k])]
        proxy_jump == join_comma(jump_aliases)
    IN  [k \in 1..Len(instances) |->
                instance_block(prefix, target, proxy_jump, instances[k])]
        \o [k \in 1..Len(jump_hosts) |-> jump_block(prefix, jump_hosts[k])]

generate_configs_fast(instances, config) ==
    LET prefix == config.prefix
        target == config.target_hosts
        jump_hosts == config.jump_hosts
        jump_aliases == [k \in 1..Len(jump_hosts) |-> jump_alias(prefix, jump_hosts[k])]
        proxy_jump == join_comma(jump_aliases)
    IN  [k \in 1..Len(jump_hosts) |-> jump_block(prefix, jump_hosts[k])]
        \o [k \in 1..Len(instances) |->
                instance_block(prefix, target, proxy_jump, instances[k])]

----------------------------------------------------------------------------
(* get_asg_instances_cli and process_asg *)

\* what the two AWS CLI calls of one discovery did; every failure path of
\* get_asg_instances_cli returns the empty list
get_asg_instances_cli(outcome) ==
    IF outcome.kind = "ok" THEN outcome.instances ELSE <<>>

\* process_asg without the early return on an empty instance list: the jump
\* hosts of an entry without instances are still generated
process_asg_no_early_return(config, outcome) ==
    IF ~({"name", "asg_name", "aws"} \subseteq DOMAIN config)
    THEN [raised |-> TRUE, value |-> <<>>]
    ELSE IF ~({"prefix", "target_hosts", "jump_hosts"} \subseteq DOMAIN config)
         THEN [raised |-> TRUE, value |-> <<>>]
         ELSE [raised |-> FALSE,
               value |-> generate_configs_fast(get_asg_instances_cli(outcome), config)]

\* a record with raised = TRUE when a key lookup of process_asg or of
\* generate_configs_fast raises KeyError
process_asg(config, outcome) ==
    IF ~({"name", "asg_name", "aws"} \subseteq DOMAIN config)
    THEN [raised |-> TRUE, value |-> <<>>]
    ELSE IF get_asg_instances_cli(outcome) = <<>>
         THEN [raised |-> FALSE, value |-> <<>>]
         ELSE IF ~({"prefix", "target_hosts", "jump_hosts"} \subseteq DOMAIN config)
              THEN [raised |-> TRUE, value |-> <<>>]
              ELSE [raised |-> FALSE,
                    value |-> generate_configs_fast(get_asg_instances_cli(outcome), config)]

----------------------------------------------------------------------------
(* write_ssh_config_fast: the content *)

GlobalMarker == "# Global SSH settings"

global_settings ==
    <<"# Global SSH settings - Managed by asg-ssh-config-manager",
      "Host *",
      "    ServerAliveInterval 60",
      "    ForwardAgent yes",
      "    AddKeysToAgent yes",
      "    ControlPath /tmp/master-%h.socket",
      "    ControlMaster auto",
      "    ControlPersist yes",
      "    Compression yes",
      "    StrictHostKeyChecking no",
      "">>

\* needs_global_settings without the marker test: the preamble always goes in
needs_global_settings_always(unmanaged) == TRUE

needs_global_settings(unmanaged) == ~text_contains(unmanaged, GlobalMarker)

\* unmanaged_parts without the rstrip() of the unmanaged text
unmanaged_parts_untrimmed(unmanaged) ==
    IF strip_nonempty(unmanaged) THEN <<unmanaged, Line("")>> ELSE <<>>

\* the list parts of the code, each element as a Text
unmanaged_parts(unmanaged) ==
    IF strip_nonempty(unmanaged) THEN <<rstrip(unmanaged), Line("")>> ELSE <<>>

RECURSIVE config_parts(_)
config_parts(new_configs) ==
    IF Len(new_configs) = 0 THEN <<>>
    ELSE <<new_configs[1], Line("")>> \o config_parts(Tail(new_configs))

ConfigsHeader == "# ASG SSH configurations - managed by asg-ssh-config-manager"

UpdatedPrefix == "# Updated: "

new_config_parts(new_configs, t) ==
    IF Len(new_configs) > 0
    THEN <<Line(ConfigsHeader), Line(UpdatedPrefix \o strftime_human(t)), Line("")>>
         \o config_parts(new_configs)
    ELSE <<>>

build_content(unmanaged, new_configs, t) ==
    join((IF needs_global_settings(unmanaged)
          THEN [k \in 1..Len(global_settings) |-> Line(global_settings[k])]
          ELSE <<>>)
         \o unmanaged_parts(unmanaged)
         \o new_config_parts(new_configs, t))

\* the dry-run preview: at most 20 lines and a count of the rest
PreviewMax == 20

preview(content) ==
    LET lines == content
        preview_lines == IF Len(lines) < PreviewMax THEN Len(lines) ELSE PreviewMax
    IN  [shown |-> SubSeq(lines, 1, preview_lines), more |-> Len(lines) - preview_lines]

----------------------------------------------------------------------------
(* The file system *)

NoFile == [exists |-> FALSE, content |-> <<>>, mode |-> ""]

File(content, mode) == [exists |-> TRUE, content |-> content, mode |-> mode]

FileAt(files, path) == IF path \in DOMAIN files THEN files[path] ELSE NoFile

Put(files, path, file) ==
    [p \in DOMAIN files \cup {path} |-> IF p = path THEN file ELSE files[p]]

\* os.replace(src, dst): dst takes the file of src and src disappears
Rename(files, src, dst) ==
    [p \in (DOMAIN files \ {src}) \cup {dst} |-> IF p = dst THEN files[src] ELSE files[p]]

\* mode of a file created by open(path, "w") under the usual umask
DefaultMode == "0644"

OwnerOnlyMode == "0600"

----------------------------------------------------------------------------
(* list_hosts *)

\* the first index from n on that holds no whitespace, len(s)+1 if none
RECURSIVE lstrip_from(_, _)
lstrip_from(s, n) ==
    IF n <= Len(s) /\ SubSeq(s, n, n) \in Whitespace THEN lstrip_from(s, n + 1) ELSE n

\* s.strip() of a single line
strip_line(s) ==
    LET r == rstrip_line(s) IN SubSeq(r, lstrip_from(r, 1), Len(r))

\* line.split()[1] of a stripped line that holds two words at least
split_second(line) ==
    LET ws == {i \in 1..Len(line) : SubSeq(line, i, i) \in Whitespace}
        start == Min({i \in Min(ws)..Len(line) : i \notin ws})
        ends == {i \in start..Len(line) : i \in ws}
        stop == IF ends = {} THEN Len(line) + 1 ELSE Min(ends)
    IN  SubSeq(line, start, stop - 1)

\* the three tests of the inner loop, made on the stripped line
is_host_line(line) == startswith(line, "Host ") /\ ~startswith(line, "HostName")

is_hostname_line(line) == startswith(line, "HostName ")

is_user_line(line) == startswith(line, "User ")

\* the test that guards the assignment of hostname, ip or user
field_matches(key, line) ==
    CASE key = "hostname" -> is_host_line(line)
      [] key = "ip" -> is_hostname_line(line)
      [] key = "user" -> is_user_line(line)

\* the inner loop of a block that is shown: the first index from i on whose
\* line starts with "# --- END", or len(lines)+1 when there is none
list_body_end(lines, i) ==
    LET ends == {j \in i..Len(lines) : startswith(lines[j], "# --- END")}
    IN  IF ends = {} THEN Len(lines) + 1 ELSE Min(ends)

\* the value a variable of the inner loop has when the loop ends: every
\* matching line of lines[from..to] assigns it again
list_field(lines, from, to, key) ==
    LET ms == {j \in from..to : field_matches(key, strip_line(lines[j]))}
    IN  IF ms = {} THEN "" ELSE split_second(strip_line(lines[Max(ms)]))

\* if hostname and not hostname.endswith("-jumphost")
list_shown(hostname) == hostname # "" /\ ~endswith(hostname, "-jumphost")

\* the outer loop: the blocks that pass the prefix filter, in file order,
\* each with the index of its begin line, the index its inner loop stopped
\* at, the three values read and whether a row is printed for it
RECURSIVE list_scan(_, _, _)
list_scan(lines, i, prefix_filter) ==
    IF i > Len(lines)
    THEN <<>>
    ELSE IF is_begin(strip_line(lines[i]))
         THEN LET block_name == begin_name(strip_line(lines[i]))
              IN  IF prefix_filter # "" /\ ~startswith(block_name, prefix_filter)
                  THEN list_scan(lines, skip_to_end(lines, i, block_name) + 1,
                                 prefix_filter)
                  ELSE LET e == list_body_end(lines, i + 1)
                           hostname == list_field(lines, i + 1, e - 1, "hostname")
                       IN  <<[begin |-> i, name |-> block_name, end |-> e,
                              hostname |-> hostname,
                              ip |-> list_field(lines, i + 1, e - 1, "ip"),
                              user |-> list_field(lines, i + 1, e - 1, "user"),
                              shown |-> list_shown(hostname)]>>
                           \o list_scan(lines, e + 1, prefix_filter)
         ELSE list_scan(lines, i + 1, prefix_filter)

Blank40 == "                                        "

\* f"{s:<n}" for n <= 40
ljust(s, n) == IF Len(s) >= n THEN s ELSE s \o SubSeq(Blank40, 1, n - Len(s))

\* f"{hostname:<40} {ip:<15} {user:<15}"
list_row(hostname, ip, user) ==
    ljust(hostname, 40) \o " " \o ljust(ip, 15) \o " " \o ljust(user, 15)

Dashes80 ==
    "----------------------------------------" \o "----------------------------------------"

\* the lines list_hosts prints before the rows; an empty line follows them
list_header(path) ==
    <<"", "Managed SSH hosts in " \o path \o ":", Dashes80,
      list_row("HOSTNAME", "IP ADDRESS", "USER"),
      list_row("--------", "----------", "----")>>

\* the rows of the blocks that are shown
list_rows(blocks) ==
    LET shown == SelectSeq(blocks, LAMBDA b : b.shown)
    IN  [k \in 1..Len(shown) |->
            list_row(shown[k].hostname, shown[k].ip, shown[k].user)]

----------------------------------------------------------------------------
(* The configuration file and the fleet *)

JumpBastion ==
    [name |-> "bastion", hostname |-> "b.example.com", user |-> "ec2-user",
     port |-> "22", identity_file |-> "~/.ssh/b.pem"]

JumpZone ==
    [name |-> "zone", hostname |-> "z.example.com", user |-> "ec2-user",
     port |-> "2200", identity_file |-> "~/.ssh/z.pem"]

TargetWithOptions ==
    [user |-> "admin", port |-> "22", identity_file |-> "~/.ssh/t.pem",
     options |-> << <<"User", "root">> >>]

TargetPlain == [user |-> "dev", port |-> "2222", identity_file |-> "~/.ssh/d.pem"]

EntryProd ==
    [name |-> "prod", asg_name |-> "prod-asg", aws |-> [region |-> "us-east-1"],
     prefix |-> "prod", target_hosts |-> TargetWithOptions,
     jump_hosts |-> <<JumpZone, JumpBastion>>]

\* a second fleet entry that uses the prefix and the jump hosts of EntryProd
EntryProdB ==
    [name |-> "prod-b", asg_name |-> "prod-b-asg", aws |-> [region |-> "us-east-1"],
     prefix |-> "prod", target_hosts |-> TargetWithOptions,
     jump_hosts |-> <<JumpZone, JumpBastion>>]

EntryDev ==
    [name |-> "dev", asg_name |-> "dev-asg", aws |-> [region |-> "eu-west-1"],
     prefix |-> "dev", target_hosts |-> TargetPlain, jump_hosts |-> <<>>]

\* an entry without the "aws" key: process_asg raises KeyError on it
EntryNoAws ==
    [name |-> "old", asg_name |-> "old-asg",
     prefix |-> "old", target_hosts |-> TargetPlain, jump_hosts |-> <<>>]

ConfigFiles ==
    { [configs |-> <<EntryProd, EntryNoAws, EntryProdB>>],
      [settings |-> [backup |-> FALSE], configs |-> <<EntryDev>>] }

I1 == [id |-> "i-1", ip |-> "10.0.0.5", name |-> "web-1"]

I2 == [id |-> "i-2", ip |-> "10.0.0.6", name |-> "i-2"]

\* what one discovery (get_asg_instances_cli) can do
Outcomes ==
    { [kind |-> "error", instances |-> <<>>],
      [kind |-> "timeout", instances |-> <<>>],
      [kind |-> "ok", instances |-> <<I2, I1>>] }

NotCalled == [kind |-> "not_called", instances |-> <<>>]

Skipped == [kind |-> "skipped", instances |-> <<>>]

\* the values of --asg: absent, a configured entry, a name no entry has
AsgArgs == {"", "prod", "nope"}

\* the values of --prefix: absent, one that the instance blocks of prod
\* pass and its jump-host blocks do not, one of another fleet
PrefixArgs == {"", "prod-i", "dev"}

TargetPaths == {"/home/u/.ssh/config", "/home/u/.ssh/hosts.tmp"}

UserText == <<"Host foo", "    HostName 1.2.3.4", "">>

\* the target before the first run
InitialTargets ==
    { NoFile,
      File(UserText, DefaultMode),
      File(UserText, "0000"),
      File(<<"# Global SSH settings of mine", "Host foo">>, OwnerOnlyMode),
      File(<<"Host foo", "# --- BEGIN prod-i-9 ---", "Host prod-10.0.0.9",
             "# --- END prod-i-9 ---", "">>, OwnerOnlyMode) }

\* config_data.get("settings", {}).get("backup", True)
backup_enabled(data) ==
    IF "settings" \in DOMAIN data /\ "backup" \in DOMAIN data.settings
    THEN data.settings.backup
    ELSE TRUE

\* backup_needed without the dry-run test
backup_needed_in_dry_run(data, files, path, dry_run) ==
    backup_enabled(data) /\ path \in DOMAIN files

\* the condition of the backup: backup and ssh_path.exists() and not dry_run
backup_needed(data, files, path, dry_run) ==
    backup_enabled(data) /\ path \in DOMAIN files /\ ~dry_run

\* copy2 that creates the destination and copies the permission bits only
copy2_mode_only(files, src, dst) == Put(files, dst, File(Line(""), files[src].mode))

\* shutil.copy2(src, dst): content and permission bits
copy2(files, src, dst) == Put(files, dst, files[src])

backup_dir(path) == path_parent(path) \o "/backups"

backup_file(path, t) == backup_dir(path) \o "/config." \o strftime_compact(t) \o ".bak"

temp_path(path) == with_suffix(path, ".tmp")

----------------------------------------------------------------------------
(* The pipeline: main() and the steps of write_ssh_config_fast *)

NoRun == [valid |-> FALSE, content |-> <<>>, configs |-> <<>>]

NoEdit == [done |-> FALSE, content |-> <<>>, at |-> ""]

Init ==
    /\ ssh_path \in TargetPaths
    /\ config_data \in ConfigFiles
    /\ \E f \in InitialTargets :
          /\ fs = (IF f.exists THEN Put(<<>>, ssh_path, f) ELSE <<>>)
          /\ dirs \in (IF f.exists THEN {{path_parent(ssh_path)}}
                                   ELSE {{}, {path_parent(ssh_path)}})
          /\ initial_target = f
    /\ now = 0
    /\ pc = "idle"
    /\ args = [dry_run |-> FALSE, asg |-> ""]
    /\ unmanaged_content = Line("")
    /\ existing_blocks = {}
    /\ all_configs = <<>>
    /\ idx = 1
    /\ final_content = Line("")
    /\ backup_path = ""
    /\ stdout = <<>>
    /\ exit_code = -1
    /\ runs = 0
    /\ outcomes = <<>>
    /\ start_fs = fs
    /\ start_dirs = dirs
    /\ call_target = NoFile
    /\ last_out = NoRun
    /\ parsed_from = NoFile
    /\ backed_up = {}
    /\ parsed_blocks = <<>>
    /\ listing = <<>>
    /\ listed = <<>>
    /\ writers = <<>>
    /\ edited = NoEdit

\* main() up to the parser call: the command line is parsed
Main_Start(dry_run, asg) ==
    /\ pc = "idle"
    /\ runs < MaxRuns
    /\ runs' = runs + 1
    /\ args' = [dry_run |-> dry_run, asg |-> asg]
    /\ pc' = "parse"
    /\ unmanaged_content' = Line("")
    /\ existing_blocks' = {}
    /\ all_configs' = <<>>
    /\ idx' = 1
    /\ final_content' = Line("")
    /\ backup_path' = ""
    /\ stdout' = <<>>
    /\ exit_code' = -1
    /\ outcomes' = <<>>
    /\ start_fs' = fs
    /\ start_dirs' = dirs
    /\ call_target' = NoFile
    /\ parsed_from' = NoFile
    /\ parsed_blocks' = <<>>
    /\ edited' = NoEdit
    /\ UNCHANGED <<fs, dirs, now, config_data, ssh_path, last_out, initial_target,
                   backed_up, listing, listed, writers>>

\* main(): unmanaged_content, existing_blocks = parse_ssh_config_fast(ssh_path);
\* an exception of open() reaches the handler of main(), which exits with 1
Main_Parse ==
    /\ pc = "parse"
    /\ LET r == parse_ssh_config_fast(fs, ssh_path)
       IN  IF r.raised
           THEN /\ pc' = "failed"
                /\ exit_code' = 1
                /\ UNCHANGED <<unmanaged_content, existing_blocks, parsed_blocks>>
           ELSE /\ pc' = "loop"
                /\ unmanaged_content' = r.unmanaged
                /\ existing_blocks' = r.blocks
                /\ parsed_blocks' = (IF ssh_path \in DOMAIN fs
                                     THEN parse_trace(fs[ssh_path].content, 1)
                                     ELSE <<>>)
                /\ UNCHANGED exit_code
    /\ parsed_from' = FileAt(fs, ssh_path)
    /\ UNCHANGED <<fs, dirs, now, config_data, ssh_path, args, all_configs, idx,
                   final_content, backup_path, stdout, runs, outcomes, start_fs,
                   start_dirs, call_target, last_out, initial_target, backed_up,
                   listing, listed, writers, edited>>

\* the entry the for loop of main() is at
current_config == config_data.configs[idx]

loop_next_pc == IF idx = Len(config_data.configs) THEN "write" ELSE "loop"

\* main(): one iteration of the for loop that --asg skips
Main_Skip ==
    /\ pc = "loop"
    /\ args.asg # "" /\ current_config.name # args.asg
    /\ outcomes' = Append(outcomes, Skipped)
    /\ idx' = idx + 1
    /\ pc' = loop_next_pc
    /\ UNCHANGED <<fs, dirs, now, config_data, ssh_path, args, unmanaged_content,
                   existing_blocks, all_configs, final_content, backup_path, stdout,
                   exit_code, runs, start_fs, start_dirs, call_target, last_out,
                   parsed_from, initial_target, backed_up, parsed_blocks, listing, listed,
                   writers, edited>>

\* main(): one iteration of the for loop that calls process_asg; an exception
\* of process_asg is logged and the loop continues
Main_Process(outcome) ==
    /\ pc = "loop"
    /\ ~(args.asg # "" /\ current_config.name # args.asg)
    /\ outcome \in (IF "aws" \in DOMAIN current_config THEN Outcomes ELSE {NotCalled})
    /\ LET r == process_asg(current_config, outcome)
       IN  all_configs' = (IF r.raised THEN all_configs ELSE all_configs \o r.value)
    /\ outcomes' = Append(outcomes, outcome)
    /\ idx' = idx + 1
    /\ pc' = loop_next_pc
    /\ UNCHANGED <<fs, dirs, now, config_data, ssh_path, args, unmanaged_content,
                   existing_blocks, final_content, backup_path, stdout,
                   exit_code, runs, start_fs, start_dirs, call_target, last_out,
                   parsed_from, initial_target, backed_up, parsed_blocks, listing, listed,
                   writers, edited>>

\* write_ssh_config_fast: the backup condition and backup_dir.mkdir
Write_Backup ==
    /\ pc = "write"
    /\ call_target' = FileAt(fs, ssh_path)
    /\ IF backup_needed(config_data, fs, ssh_path, args.dry_run)
       THEN /\ dirs' = dirs \cup {backup_dir(ssh_path)}
            /\ pc' = "copy"
       ELSE /\ pc' = "build"
            /\ UNCHANGED dirs
    /\ UNCHANGED <<fs, now, config_data, ssh_path, args, unmanaged_content,
                   existing_blocks, all_configs, idx, final_content, backup_path,
                   stdout, exit_code, runs, outcomes, start_fs, start_dirs,
                   last_out, parsed_from, initial_target, backed_up, parsed_blocks, listing, listed,
                   writers, edited>>

\* write_ssh_config_fast: shutil.copy2(ssh_path, backup_path)
Write_Copy ==
    /\ pc = "copy"
    /\ backup_path' = backup_file(ssh_path, now)
    /\ fs' = copy2(fs, ssh_path, backup_file(ssh_path, now))
    /\ pc' = "build"
    /\ UNCHANGED <<dirs, now, config_data, ssh_path, args, unmanaged_content,
                   existing_blocks, all_configs, idx, final_content,
                   stdout, exit_code, runs, outcomes, start_fs, start_dirs,
                   call_target, last_out, parsed_from, initial_target, backed_up, parsed_blocks, listing, listed,
                   writers, edited>>

\* write_ssh_config_fast: parts and final_content
Write_Build ==
    /\ pc = "build"
    /\ final_content' = build_content(unmanaged_content, all_configs, now)
    /\ pc' = (IF args.dry_run THEN "preview" ELSE "mkdir")
    /\ UNCHANGED <<fs, dirs, now, config_data, ssh_path, args, unmanaged_content,
                   existing_blocks, all_configs, idx, backup_path,
                   stdout, exit_code, runs, outcomes, start_fs, start_dirs,
                   call_target, last_out, parsed_from, initial_target, backed_up, parsed_blocks, listing, listed,
                   writers, edited>>

\* write_ssh_config_fast: the dry-run branch
Write_Preview ==
    /\ pc = "preview"
    /\ stdout' = (IF preview(final_content).more > 0
                  THEN Append(preview(final_content).shown, "...")
                  ELSE preview(final_content).shown)
    /\ pc' = "done"
    /\ UNCHANGED <<fs, dirs, now, config_data, ssh_path, args, unmanaged_content,
                   existing_blocks, all_configs, idx, final_content, backup_path,
                   exit_code, runs, outcomes, start_fs, start_dirs,
                   call_target, last_out, parsed_from, initial_target, backed_up, parsed_blocks, listing, listed,
                   writers, edited>>

\* write_ssh_config_fast: ssh_path.parent.mkdir(parents=True, exist_ok=True)
Write_Mkdir ==
    /\ pc = "mkdir"
    /\ dirs' = dirs \cup {path_parent(ssh_path)}
    /\ pc' = "open"
    /\ UNCHANGED <<fs, now, config_data, ssh_path, args, unmanaged_content,
                   existing_blocks, all_configs, idx, final_content, backup_path,
                   stdout, exit_code, runs, outcomes, start_fs, start_dirs,
                   call_target, last_out, parsed_from, initial_target, backed_up, parsed_blocks, listing, listed,
                   writers, edited>>

\* write_ssh_config_fast: open(temp_path, "w") creates or truncates the file
Write_Open ==
    /\ pc = "open"
    /\ fs' = Put(fs, temp_path(ssh_path),
                 File(Line(""), IF temp_path(ssh_path) \in DOMAIN fs
                          THEN fs[temp_path(ssh_path)].mode
                          ELSE DefaultMode))
    /\ pc' = "fwrite"
    /\ UNCHANGED <<dirs, now, config_data, ssh_path, args, unmanaged_content,
                   existing_blocks, all_configs, idx, final_content, backup_path,
                   stdout, exit_code, runs, outcomes, start_fs, start_dirs,
                   call_target, last_out, parsed_from, initial_target, backed_up, parsed_blocks, listing, listed,
                   writers, edited>>

\* write_ssh_config_fast: f.write(final_content) and the close of the file
Write_Write ==
    /\ pc = "fwrite"
    /\ fs' = [fs EXCEPT ![temp_path(ssh_path)].content = final_content]
    /\ pc' = "replace"
    /\ UNCHANGED <<dirs, now, config_data, ssh_path, args, unmanaged_content,
                   existing_blocks, all_configs, idx, final_content, backup_path,
                   stdout, exit_code, runs, outcomes, start_fs, start_dirs,
                   call_target, last_out, parsed_from, initial_target, backed_up, parsed_blocks, listing, listed,
                   writers, edited>>

\* write_ssh_config_fast: temp_path.replace(ssh_path)
Write_Replace ==
    /\ pc = "replace"
    /\ fs' = Rename(fs, temp_path(ssh_path), ssh_path)
    /\ pc' = "chmod"
    /\ UNCHANGED <<dirs, now, config_data, ssh_path, args, unmanaged_content,
                   existing_blocks, all_configs, idx, final_content, backup_path,
                   stdout, exit_code, runs, outcomes, start_fs, start_dirs,
                   call_target, last_out, parsed_from, initial_target, backed_up, parsed_blocks, listing, listed,
                   writers, edited>>

\* write_ssh_config_fast: ssh_path.chmod(0o600)
Write_Chmod ==
    /\ pc = "chmod"
    /\ fs' = [fs EXCEPT ![ssh_path].mode = OwnerOnlyMode]
    /\ pc' = "done"
    /\ UNCHANGED <<dirs, now, config_data, ssh_path, args, unmanaged_content,
                   existing_blocks, all_configs, idx, final_content, backup_path,
                   stdout, exit_code, runs, outcomes, start_fs, start_dirs,
                   call_target, last_out, parsed_from, initial_target, backed_up, parsed_blocks, listing, listed,
                   writers, edited>>

\* main() returns after the writer: the process exits with 0 and its memory
\* is gone
Main_Exit ==
    /\ pc = "done"
    /\ pc' = "idle"
    /\ exit_code' = 0
    /\ last_out' = (IF args.dry_run THEN last_out
                    ELSE [valid |-> TRUE, content |-> fs[ssh_path].content,
                          configs |-> all_configs])
    /\ args' = [dry_run |-> FALSE, asg |-> ""]
    /\ unmanaged_content' = Line("")
    /\ existing_blocks' = {}
    /\ all_configs' = <<>>
    /\ idx' = 1
    /\ final_content' = Line("")
    /\ backup_path' = ""
    /\ stdout' = <<>>
    /\ outcomes' = <<>>
    /\ start_fs' = fs
    /\ start_dirs' = dirs
    /\ call_target' = NoFile
    /\ parsed_from' = NoFile
    /\ backed_up' = (IF backup_path # "" THEN backed_up \cup {call_target.content}
                     ELSE backed_up)
    /\ parsed_blocks' = <<>>
    /\ edited' = NoEdit
    /\ UNCHANGED <<fs, dirs, now, config_data, ssh_path, runs, initial_target,
                   listing, listed, writers>>

\* main() with --list: list_hosts(ssh_path, args.prefix) and return; an
\* exception of open() reaches the handler of main(), which exits with 1
Main_List(prefix) ==
    /\ pc = "idle"
    /\ runs < MaxRuns
    /\ runs' = runs + 1
    /\ args' = [dry_run |-> FALSE, asg |-> "", list |-> TRUE, prefix |-> prefix]
    /\ IF ssh_path \notin DOMAIN fs
       THEN /\ listing' = <<"SSH config not found: " \o ssh_path>>
            /\ listed' = <<>>
            /\ pc' = "listed"
            /\ exit_code' = -1
       ELSE IF ~Readable(fs[ssh_path])
            THEN /\ pc' = "failed"
                 /\ exit_code' = 1
                 /\ UNCHANGED <<listing, listed>>
            ELSE /\ listed' = list_scan(fs[ssh_path].content, 1, prefix)
                 /\ listing' = list_header(ssh_path) \o list_rows(listed') \o <<"">>
                 /\ pc' = "listed"
                 /\ exit_code' = -1
    /\ UNCHANGED <<fs, dirs, now, config_data, ssh_path, unmanaged_content,
                   existing_blocks, all_configs, idx, final_content, backup_path,
                   stdout, outcomes, start_fs, start_dirs, call_target, last_out,
                   parsed_from, initial_target, backed_up, parsed_blocks, writers,
                   edited>>

\* main() returns after list_hosts: the process exits with 0
Main_ListExit ==
    /\ pc = "listed"
    /\ pc' = "idle"
    /\ exit_code' = 0
    /\ args' = [dry_run |-> FALSE, asg |-> ""]
    /\ listing' = <<>>
    /\ listed' = <<>>
    /\ UNCHANGED <<fs, dirs, now, config_data, ssh_path, unmanaged_content,
                   existing_blocks, all_configs, idx, final_content, backup_path,
                   stdout, runs, outcomes, start_fs, start_dirs, call_target,
                   last_out, parsed_from, initial_target, backed_up, parsed_blocks,
                   writers, edited>>

\* the positions inside the non-dry-run part of write_ssh_config_fast
WriterPcs == {"copy", "build", "mkdir", "open", "fwrite", "replace", "chmod"}

\* a step of the writer fails (the exception reaches the handler of main())
\* or the process is killed: the run ends with a non-zero status and the
\* file system stays as the steps before left it
Crash ==
    /\ pc \in WriterPcs
    /\ ~args.dry_run
    /\ pc' = "crashed"
    /\ exit_code' = 1
    /\ UNCHANGED <<fs, dirs, now, config_data, ssh_path, args, unmanaged_content,
                   existing_blocks, all_configs, idx, final_content, backup_path,
                   stdout, runs, outcomes, start_fs, start_dirs,
                   call_target, last_out, parsed_from, initial_target, backed_up, parsed_blocks, listing, listed,
                   writers, edited>>

\* a second passes; the clock is read by Write_Copy and Write_Build only, so
\* the seconds that pass anywhere before one of them pass right before it
Tick ==
    /\ pc \in {"copy", "build"}
    /\ now < MaxClock
    /\ now' = now + 1
    /\ UNCHANGED <<fs, dirs, config_data, ssh_path, pc, args, unmanaged_content,
                   existing_blocks, all_configs, idx, final_content, backup_path,
                   stdout, exit_code, runs, outcomes, start_fs, start_dirs,
                   call_target, last_out, parsed_from, initial_target, backed_up, parsed_blocks, listing, listed,
                   writers, edited>>

Next ==
    \/ \E dry_run \in BOOLEAN, asg \in AsgArgs : Main_Start(dry_run, asg)
    \/ Main_Parse
    \/ Main_Skip
    \/ \E outcome \in Outcomes \cup {NotCalled} : Main_Process(outcome)
    \/ Write_Backup
    \/ Write_Copy
    \/ Write_Build
    \/ Write_Preview
    \/ Write_Mkdir
    \/ Write_Open
    \/ Write_Write
    \/ Write_Replace
    \/ Write_Chmod
    \/ Main_Exit
    \/ \E prefix \in PrefixArgs : Main_List(prefix)
    \/ Main_ListExit
    \/ Crash
    \/ Tick

Spec == Init /\ [][Next]_vars

TypeOK == pc \in {"idle", "parse", "loop", "write", "done", "preview", "failed", "crashed", "reparsed", "listed", "two"} \cup WriterPcs

----------------------------------------------------------------------------
(* The writer called on its own, and the parser applied to what it wrote *)

LineAlphabet ==
    { "",
      "Host foo",
      "    HostName 1.2.3.4  ",
      "# Global SSH settings",
      "# --- BEGIN a ---",
      "# --- END a ---",
      "# --- BEGIN a --- " }

\* the files of at most MaxLines lines over the alphabet
TestFiles == UNION {[1..n -> LineAlphabet] : n \in 1..MaxLines}

\* the block lists the generator produces for some fleets
BlockLists ==
    { <<>>,
      generate_configs_fast(<<I1>>, EntryProd),
      generate_configs_fast(<<I2, I1>>, EntryDev) }

\* write_ssh_config_fast is entered with the unmanaged text the parser
\* returned for a file and a list of generated blocks, backups disabled
InitWriter ==
    /\ ssh_path = "/home/u/.ssh/config"
    /\ config_data = [settings |-> [backup |-> FALSE], configs |-> <<EntryDev>>]
    /\ \E f \in TestFiles :
          /\ fs = Put(<<>>, ssh_path, File(f, DefaultMode))
          /\ initial_target = File(f, DefaultMode)
          /\ parsed_from = File(f, DefaultMode)
          /\ unmanaged_content = parse_content(f).unmanaged
          /\ existing_blocks = parse_content(f).blocks
          /\ parsed_blocks = parse_trace(f, 1)
    /\ all_configs \in BlockLists
    /\ dirs = {path_parent(ssh_path)}
    /\ now = 0
    /\ pc = "write"
    /\ args = [dry_run |-> FALSE, asg |-> ""]
    /\ idx = 1
    /\ final_content = Line("")
    /\ backup_path = ""
    /\ stdout = <<>>
    /\ exit_code = -1
    /\ runs = 1
    /\ outcomes = <<>>
    /\ start_fs = fs
    /\ start_dirs = dirs
    /\ call_target = NoFile
    /\ last_out = NoRun
    /\ backed_up = {}
    /\ listing = <<>>
    /\ listed = <<>>
    /\ writers = <<>>
    /\ edited = NoEdit

\* parse_ssh_config_fast applied to the file the writer produced
Reparse ==
    /\ pc = "done"
    /\ LET r == parse_ssh_config_fast(fs, ssh_path)
       IN  /\ unmanaged_content' = r.unmanaged
           /\ existing_blocks' = r.blocks
    /\ pc' = "reparsed"
    /\ UNCHANGED <<fs, dirs, now, config_data, ssh_path, args, all_configs, idx,
                   final_content, backup_path, stdout, exit_code, runs, outcomes,
                   start_fs, start_dirs, call_target, last_out, parsed_from,
                   initial_target, backed_up, parsed_blocks, listing, listed,
                   writers, edited>>

NextWriter ==
    \/ Write_Backup
    \/ Write_Build
    \/ Write_Mkdir
    \/ Write_Open
    \/ Write_Write
    \/ Write_Replace
    \/ Write_Chmod
    \/ Reparse

SpecWriter == InitWriter /\ [][NextWriter]_vars

----------------------------------------------------------------------------
(* Properties *)

\* the target file, NoFile when it does not exist
Target == FileAt(fs, ssh_path)

\* the text of a file; a file that does not exist holds nothing
TextOf(file) == IF file.exists THEN file.content ELSE Line("")

\* a text with the timestamp of every freshness comment blanked
MaskUpdated(text) ==
    [k \in 1..Len(text) |->
        IF startswith(text[k], UpdatedPrefix) THEN UpdatedPrefix ELSE text[k]]

\* the ten lines of the global-defaults preamble
PreambleLines == SubSeq(global_settings, 1, Len(global_settings) - 1)

\* how many times the preamble occurs in a text
CountPreamble(text) ==
    Cardinality({k \in 1..(Len(text) - Len(PreambleLines) + 1) :
                    SubSeq(text, k, k + Len(PreambleLines) - 1) = PreambleLines})

\* the names on the begin markers of a text, with their line numbers
BeginLines(text) == {k \in 1..Len(text) : is_begin(text[k])}

\* the block names of a list of generated blocks
BlockNames(blocks) == {begin_name(blocks[k][1]) : k \in 1..Len(blocks)}

\* string concatenation a + b of two Texts
StrConcat(a, b) ==
    SubSeq(a, 1, Len(a) - 1) \o <<a[Len(a)] \o b[1]>> \o Tail(b)

\* the preamble as the string the writer emits when nothing follows it
PreambleText == PreambleLines \o Line("")

\* no line of the text starts like a begin or an end marker
NoMarkers(text) ==
    \A k \in 1..Len(text) :
        ~startswith(text[k], "# --- BEGIN ") /\ ~startswith(text[k], "# --- END ")

\* C1: a run that starts from the file a previous non-dry run produced and
\* writes the same block list produces the same file, the timestamp of the
\* freshness comment aside; the number of lines does not grow.
C1_Idempotent ==
    (/\ pc = "done"
     /\ ~args.dry_run
     /\ last_out.valid
     /\ parsed_from.exists
     /\ parsed_from.content = last_out.content
     /\ all_configs = last_out.configs)
    => /\ MaskUpdated(Target.content) = MaskUpdated(last_out.content)
       /\ Len(Target.content) <= Len(last_out.content)

\* C2 as stated: with zero new blocks and an unmanaged text X without block
\* markers the writer produces X unchanged, preceded by the preamble only
\* when X does not contain the marker string.
C2_Unchanged ==
    (/\ pc = "done"
     /\ all_configs = <<>>
     /\ NoMarkers(unmanaged_content))
    => IF text_contains(unmanaged_content, GlobalMarker)
       THEN Target.content = unmanaged_content
       ELSE \/ Target.content = StrConcat(PreambleText, unmanaged_content)
            \/ Target.content = StrConcat(PreambleText \o Line(""), unmanaged_content)

\* C2 amended: with zero new blocks and an unmanaged text X without block
\* markers the writer produces X with its trailing whitespace replaced by one
\* line break (nothing when X is blank), preceded, only when X does not
\* contain the marker string, by the preamble and a blank line (the preamble
\* alone when X is blank); nothing else is added, removed or altered.
C2_Lossless ==
    (/\ pc = "done"
     /\ all_configs = <<>>
     /\ NoMarkers(unmanaged_content))
    => Target.content =
          (IF text_contains(unmanaged_content, GlobalMarker)
           THEN rstrip(unmanaged_content) \o Line("")
           ELSE IF strip_nonempty(unmanaged_content)
                THEN PreambleLines \o Line("") \o rstrip(unmanaged_content) \o Line("")
                ELSE PreambleText)

C2_Witness ==
    /\ pc = "done"
    /\ all_configs = <<>>
    /\ NoMarkers(unmanaged_content)
    /\ strip_nonempty(unmanaged_content)
    /\ rstrip(unmanaged_content) \o Line("") # unmanaged_content
    /\ text_contains(unmanaged_content, GlobalMarker)

\* C3: during a non-dry-run call of the writer, a failure or crash after any
\* step included, the target holds the complete prior content or the complete
\* new content.
C3_AtomicReplace ==
    (pc \in WriterPcs \cup {"done", "crashed"} /\ ~args.dry_run)
    => \/ TextOf(Target) = TextOf(call_target)
       \/ (pc \notin {"copy", "build"} /\ TextOf(Target) = final_content)

\* C4: the parser applied to the file the writer wrote returns exactly the
\* names of the blocks passed to the writer.
C4_RoundTrip ==
    pc = "reparsed" => existing_blocks = BlockNames(all_configs)

\* C5: a dry run mutates nothing in the file system: no backups directory, no
\* backup file, no temporary file, and the target keeps its existence, content
\* and permissions.
C5_DryRunPurity ==
    (args.dry_run /\ pc # "idle") => (fs = start_fs /\ dirs = start_dirs)

C5_Witness ==
    /\ args.dry_run
    /\ pc = "done"
    /\ backup_enabled(config_data)
    /\ ssh_path \in DOMAIN fs
    /\ Len(all_configs) > 0

\* C6 as stated, its last part: the prior content of every completed run that
\* took a backup is retained in a file of the backups directory.
C6_PriorRetained ==
    \A content \in backed_up :
        \E path \in DOMAIN fs :
            /\ startswith(path, backup_dir(ssh_path) \o "/")
            /\ fs[path].content = content

\* C6 amended: in a non-dry run with backups enabled and an existing target
\* the backup copy is taken before the target is replaced, and from then to
\* the end of the run the backup file of that run holds exactly the content
\* the target had before the run changed it (a later run that takes its
\* backup within the same second overwrites that file).
C6_BackupFidelity ==
    (/\ pc \in {"build", "mkdir", "open", "fwrite", "replace", "chmod", "done"}
     /\ ~args.dry_run
     /\ backup_enabled(config_data)
     /\ call_target.exists)
    => /\ \E t \in 0..now : backup_path = backup_file(ssh_path, t)
       /\ backup_path \in DOMAIN fs
       /\ fs[backup_path].content = call_target.content

C6_Witness ==
    /\ pc = "done"
    /\ ~args.dry_run
    /\ backup_enabled(config_data)
    /\ call_target.exists
    /\ Target.content # call_target.content
    /\ runs = 2

\* the blocks a fleet entry contributes, given what its discovery did
EntryBlocks(config, outcome) ==
    IF outcome.kind = "ok" /\ Len(outcome.instances) > 0
    THEN generate_configs_fast(outcome.instances, config)
    ELSE <<>>

RECURSIVE ExpectedConfigs(_, _)
ExpectedConfigs(configs, done) ==
    IF Len(done) = 0 THEN <<>>
    ELSE ExpectedConfigs(configs, SubSeq(done, 1, Len(done) - 1))
         \o EntryBlocks(configs[Len(done)], done[Len(done)])

\* C7: an entry whose discovery fails or times out contributes no block at
\* all, every entry the run does not skip is still processed and its blocks
\* reach the single writer pass, and the run that completes exits with 0.
C7_Isolation ==
    /\ [](pc \in {"write", "build", "copy", "mkdir", "preview", "done"} =>
            /\ Len(outcomes) = Len(config_data.configs)
            /\ all_configs = ExpectedConfigs(config_data.configs, outcomes))
    /\ [][pc = "done" => (pc' \in {"idle"} /\ exit_code' = 0)]_vars

C7_Witness ==
    /\ pc = "done"
    /\ Len(outcomes) = 3
    /\ ~args.dry_run
    /\ outcomes[1].kind = "timeout"
    /\ outcomes[3].kind = "ok"
    /\ Target.content = final_content
    /\ Len(all_configs) = 4

\* C8: a target that is missing or cannot be read is an empty file for the
\* parser: empty unmanaged text, no block names, no error, and the run goes
\* on to the writer.
C8_MissingOrUnreadable ==
    (/\ pc \notin {"idle", "parse"}
     /\ (~parsed_from.exists \/ ~Readable(parsed_from)))
    => /\ pc # "failed"
       /\ unmanaged_content = Line("")
       /\ existing_blocks = {}

\* C9: no two managed blocks of a written file carry the same name.
C9_UniqueNames ==
    (pc = "done" /\ ~args.dry_run)
    => \A j, k \in BeginLines(Target.content) :
           begin_name(Target.content[j]) = begin_name(Target.content[k]) => j = k

\* the target before the first run has no preamble
StartsWithoutPreamble ==
    ~initial_target.exists \/ CountPreamble(initial_target.content) = 0

\* the text outside the blocks of the target before the first run does not
\* contain the marker string
StartsWithoutMarker ==
    \/ ~initial_target.exists
    \/ ~text_contains(parse_content(initial_target.content).unmanaged, GlobalMarker)

\* the preamble is in the target exactly once when a non-dry run has
\* completed and no run is changing the file, and never more than once
OnePreamble ==
    /\ Target.exists => CountPreamble(Target.content) <= 1
    /\ ((pc = "done" /\ ~args.dry_run) \/ (pc = "idle" /\ last_out.valid))
          => CountPreamble(Target.content) = 1

\* C10 as stated: starting from a missing file or a file without the
\* preamble, the target contains the preamble exactly once after the first
\* non-dry run and never more than once.
C10_FromNoPreamble == StartsWithoutPreamble => OnePreamble

\* C10 amended: starting from a missing file or a file that has no preamble
\* and whose text outside managed blocks does not contain the marker string
\* "# Global SSH settings", the target contains the preamble exactly once
\* after the first completed non-dry run and never more than once.
C10_FromNoMarker == (StartsWithoutPreamble /\ StartsWithoutMarker) => OnePreamble

C10_Witness ==
    /\ StartsWithoutPreamble
    /\ StartsWithoutMarker
    /\ initial_target.exists
    /\ pc = "done"
    /\ ~args.dry_run
    /\ last_out.valid
    /\ CountPreamble(Target.content) = 1

----------------------------------------------------------------------------
(* The two scans, of the parser and of list_hosts, run on hand-written files *)

\* lines a person or an older version may have left in the file: markers
\* that are indented, that carry text after the closing dashes, that close
\* another name, and the fields list_hosts looks for
ScanAlphabet ==
    {"# --- BEGIN a ---", "# --- END a ---", "  # --- BEGIN a ---",
     "# --- END b ---", "# --- END a --- old", "Host a-1", "    User u"}

ScanFiles == UNION {[1..n -> ScanAlphabet] : n \in 1..MaxLines}

\* main() is started on one of these files
InitScan ==
    /\ ssh_path = "/home/u/.ssh/config"
    /\ config_data = [settings |-> [backup |-> FALSE], configs |-> <<EntryDev>>]
    /\ \E f \in ScanFiles :
          /\ fs = Put(<<>>, ssh_path, File(f, DefaultMode))
          /\ initial_target = File(f, DefaultMode)
    /\ dirs = {path_parent(ssh_path)}
    /\ now = 0
    /\ pc = "idle"
    /\ args = [dry_run |-> FALSE, asg |-> ""]
    /\ unmanaged_content = Line("")
    /\ existing_blocks = {}
    /\ all_configs = <<>>
    /\ idx = 1
    /\ final_content = Line("")
    /\ backup_path = ""
    /\ stdout = <<>>
    /\ exit_code = -1
    /\ runs = 0
    /\ outcomes = <<>>
    /\ start_fs = fs
    /\ start_dirs = dirs
    /\ call_target = NoFile
    /\ last_out = NoRun
    /\ parsed_from = NoFile
    /\ backed_up = {}
    /\ parsed_blocks = <<>>
    /\ listing = <<>>
    /\ listed = <<>>
    /\ writers = <<>>
    /\ edited = NoEdit

NextScan ==
    \/ \E dry_run \in BOOLEAN, asg \in AsgArgs : Main_Start(dry_run, asg)
    \/ Main_Parse
    \/ \E prefix \in {"", "b"} : Main_List(prefix)
    \/ Main_ListExit

SpecScan == InitScan /\ [][NextScan]_vars

\* the marker lines as generate_configs_fast writes them
BeginMarker(name) == "# --- BEGIN " \o name \o " ---"

EndMarker(name) == "# --- END " \o name \o " ---"

\* C11: the parser opens a block only at a line that is exactly the begin
\* marker of the name it takes, and closes the block only at a line that is
\* exactly the end marker of that name: a line with text after the end
\* marker does not close the block
C11_ExactMarkers ==
    pc = "loop" =>
        \A k \in 1..Len(parsed_blocks) :
            LET b == parsed_blocks[k]
                lines == parsed_from.content
            IN  /\ lines[b.begin] = BeginMarker(b.name)
                /\ b.end <= Len(lines) => lines[b.end] = EndMarker(b.name)

\* the lines before index n that the scan left outside every block
OutsideBefore(lines, blocks, n) ==
    LET inside(i) == \E k \in 1..Len(blocks) :
                        blocks[k].begin <= i /\ i <= blocks[k].end
        RECURSIVE keep(_)
        keep(i) == IF i >= n THEN <<>>
                   ELSE IF inside(i) THEN keep(i + 1)
                   ELSE <<lines[i]>> \o keep(i + 1)
    IN  keep(1)

\* C12: when a block the parser opened for name N has no later end marker
\* for N, the parser returns without raising, N is in the set of names, the
\* begin line and every line after it are left out of the unmanaged text,
\* and the lines before it that lie outside blocks are kept in order
C12_Unterminated ==
    pc = "loop" =>
        \A k \in 1..Len(parsed_blocks) :
            LET b == parsed_blocks[k]
                lines == parsed_from.content
            IN  (\A j \in (b.begin + 1)..Len(lines) : lines[j] # EndMarker(b.name))
                => /\ b.name \in existing_blocks
                   /\ unmanaged_content
                        = join_lines(OutsideBefore(lines, parsed_blocks, b.begin))
----------------------------------------------------------------------------
(* The blocks of a run: their order and their names *)

\* the names of the blocks one entry is to contribute: its jump hosts in the
\* order of the configuration, then its instances in the order discovery
\* returned them
EntryNames(config, outcome) ==
    IF outcome.kind = "ok" /\ Len(outcome.instances) > 0
    THEN [k \in 1..Len(config.jump_hosts) |->
                config.prefix \o "-jumphost-" \o config.jump_hosts[k].name]
         \o [k \in 1..Len(outcome.instances) |->
                config.prefix \o "-" \o outcome.instances[k].id]
    ELSE <<>>

RECURSIVE ExpectedNames(_, _)
ExpectedNames(configs, done) ==
    IF Len(done) = 0 THEN <<>>
    ELSE ExpectedNames(configs, SubSeq(done, 1, Len(done) - 1))
         \o EntryNames(configs[Len(done)], done[Len(done)])

\* the lines of a written file after its last header line of the managed part
ManagedSection(text) ==
    LET headers == {i \in 1..Len(text) : text[i] = ConfigsHeader}
    IN  IF headers = {} THEN text ELSE SubSeq(text, Max(headers) + 1, Len(text))

\* the names of the begin lines of a text, in the order of the lines
BeginNameSeq(text) ==
    LET begins == SelectSeq(text, is_begin)
    IN  [k \in 1..Len(begins) |-> begin_name(begins[k])]

EntryHeads(config, outcome) ==
    IF outcome.kind = "ok" /\ Len(outcome.instances) > 0
    THEN [k \in 1..Len(config.jump_hosts) |->
            <<"# --- BEGIN " \o config.prefix \o "-jumphost-"
                  \o config.jump_hosts[k].name \o " ---",
              "Host " \o config.prefix \o "-jumphost-" \o config.jump_hosts[k].name>>]
         \o [k \in 1..Len(outcome.instances) |->
            <<"# --- BEGIN " \o config.prefix \o "-" \o outcome.instances[k].id
                  \o " ---",
              "Host " \o config.prefix \o "-" \o outcome.instances[k].ip>>]
    ELSE <<>>

RECURSIVE ExpectedHeads(_, _)
ExpectedHeads(configs, done) ==
    IF Len(done) = 0 THEN <<>>
    ELSE ExpectedHeads(configs, SubSeq(done, 1, Len(done) - 1))
         \o EntryHeads(configs[Len(done)], done[Len(done)])

\* C14: a jump-host block has the block name and the Host alias
\* <prefix>-jumphost-<jumpName>; an instance block has the Host alias
\* <prefix>-<address> and the block name <prefix>-<instanceIdentifier>
C14_Naming ==
    [b \in 1..Len(all_configs) |-> <<all_configs[b][1], all_configs[b][2]>>]
        = ExpectedHeads(config_data.configs, outcomes)

\* prefix prod, jump host bastion, instance i-1 at 10.0.0.5
C14_Witness ==
    /\ pc = "write"
    /\ \E b \in 1..Len(all_configs) :
          /\ all_configs[b][1] = "# --- BEGIN prod-jumphost-bastion ---"
          /\ all_configs[b][2] = "Host prod-jumphost-bastion"
    /\ \E b \in 1..Len(all_configs) :
          /\ all_configs[b][1] = "# --- BEGIN prod-i-1 ---"
          /\ all_configs[b][2] = "Host prod-10.0.0.5"
----------------------------------------------------------------------------
(* list_hosts: the fields it reads, the blocks it sees, the rows it prints *)

\* the value of the first line of lines[from..to] that passes the test
FirstField(lines, from, to, key) ==
    LET ms == {j \in from..to : field_matches(key, strip_line(lines[j]))}
    IN  IF ms = {} THEN "" ELSE split_second(strip_line(lines[Min(ms)]))

\* C15: each of the three fields list_hosts reads in a block has the value
\* of the first matching line of the block body; a later matching line, such
\* as a User line added from the extra options, does not change it
C15_FirstMatchWins ==
    pc = "listed" =>
        \A k \in 1..Len(listed) :
            LET b == listed[k]
                lines == fs[ssh_path].content
            IN  /\ b.hostname = FirstField(lines, b.begin + 1, b.end - 1, "hostname")
                /\ b.ip = FirstField(lines, b.begin + 1, b.end - 1, "ip")
                /\ b.user = FirstField(lines, b.begin + 1, b.end - 1, "user")

\* C16: without a prefix filter, the blocks list_hosts goes through (begin
\* line, name, end line) are the blocks the parser goes through in the same
\* file, whatever the file holds
C16_SameScan ==
    (pc = "listed" /\ args.prefix = "" /\ ssh_path \in DOMAIN fs) =>
        [k \in 1..Len(listed) |->
            [begin |-> listed[k].begin, name |-> listed[k].name, end |-> listed[k].end]]
          = parse_trace(fs[ssh_path].content, 1)

\* the names the jump-host blocks of the configuration have
JumpBlockNames ==
    UNION {{config_data.configs[k].prefix \o "-jumphost-"
                \o config_data.configs[k].jump_hosts[j].name :
                j \in 1..Len(config_data.configs[k].jump_hosts)} :
           k \in 1..Len(config_data.configs)}

\* C17: on the file a run wrote, list_hosts prints one row for every instance
\* block that passes the prefix filter and no row for a jump-host block
C17_InstancesOnly ==
    (pc = "listed" /\ last_out.valid /\ ssh_path \in DOMAIN fs
        /\ fs[ssh_path].content = last_out.content) =>
        LET shown == SelectSeq(listed, LAMBDA b : b.shown)
            written == [k \in 1..Len(last_out.configs) |->
                            begin_name(last_out.configs[k][1])]
            wanted(n) == n \notin JumpBlockNames /\ startswith(n, args.prefix)
        IN  [k \in 1..Len(shown) |-> shown[k].name] = SelectSeq(written, wanted)
----------------------------------------------------------------------------
(* Two runs at once: the non-dry-run steps of write_ssh_config_fast of two *)
(* processes on one target, step by step                                   *)

\* len(s) of a Text
RECURSIVE TextLen(_)
TextLen(text) ==
    IF Len(text) = 1 THEN Len(text[1]) ELSE Len(text[1]) + 1 + TextLen(Tail(text))

\* s[n:] of a Text with n <= len(s)
RECURSIVE DropChars(_, _)
DropChars(text, n) ==
    IF n <= Len(text[1])
    THEN <<SubSeq(text[1], n + 1, Len(text[1]))>> \o Tail(text)
    ELSE DropChars(Tail(text), n - Len(text[1]) - 1)

\* f.write(new) through a handle at offset 0 of a file that holds old: the
\* bytes of new replace the first len(new) bytes, the rest of old stays
Overlay(new, old) ==
    IF TextLen(old) <= TextLen(new) THEN new
    ELSE StrConcat(new, DropChars(old, TextLen(new)))

\* an open handle follows its file, not the path: it is the path the file
\* has now, Unlinked once another file was renamed over it, "" when closed
Unlinked == "(unlinked)"

\* the final_content of a pass
TwoContents == {build_content(UserText, blocks, 0) : blocks \in BlockLists}

Writer(p) == writers[p]

\* both processes have built their content and are about to open the
\* temporary file
InitTwo ==
    /\ ssh_path = "/home/u/.ssh/config"
    /\ config_data = [settings |-> [backup |-> FALSE], configs |-> <<EntryDev>>]
    /\ \E f \in {NoFile, File(UserText, DefaultMode), File(UserText, OwnerOnlyMode)} :
          /\ fs = (IF f.exists THEN Put(<<>>, ssh_path, f) ELSE <<>>)
          /\ initial_target = f
    /\ writers \in [{1, 2} -> {[pc |-> "open", content |-> c, handle |-> ""] :
                                    c \in TwoContents}]
    /\ dirs = {path_parent(ssh_path)}
    /\ now = 0
    /\ pc = "two"
    /\ args = [dry_run |-> FALSE, asg |-> ""]
    /\ unmanaged_content = UserText
    /\ existing_blocks = {}
    /\ all_configs = <<>>
    /\ idx = 1
    /\ final_content = Line("")
    /\ backup_path = ""
    /\ stdout = <<>>
    /\ exit_code = -1
    /\ runs = 2
    /\ outcomes = <<>>
    /\ start_fs = fs
    /\ start_dirs = dirs
    /\ call_target = initial_target
    /\ last_out = NoRun
    /\ parsed_from = initial_target
    /\ backed_up = {}
    /\ parsed_blocks = <<>>
    /\ listing = <<>>
    /\ listed = <<>>
    /\ edited = NoEdit

\* open(temp_path, "w") of process p: creates the file or truncates the one
\* that is there, whoever else holds it open
Two_Open(p) ==
    /\ Writer(p).pc = "open"
    /\ fs' = Put(fs, temp_path(ssh_path),
                 File(Line(""), IF temp_path(ssh_path) \in DOMAIN fs
                          THEN fs[temp_path(ssh_path)].mode
                          ELSE DefaultMode))
    /\ writers' = [writers EXCEPT ![p].pc = "fwrite",
                                  ![p].handle = temp_path(ssh_path)]
    /\ UNCHANGED <<dirs, now, config_data, ssh_path, pc, args, unmanaged_content,
                   existing_blocks, all_configs, idx, final_content, backup_path,
                   stdout, exit_code, runs, outcomes, start_fs, start_dirs,
                   call_target, last_out, parsed_from, initial_target, backed_up,
                   parsed_blocks, listing, listed, edited>>

\* f.write(final_content) and the close of the file of process p: the bytes
\* go to the file the handle is on, wherever it is now
Two_Write(p) ==
    /\ Writer(p).pc = "fwrite"
    /\ fs' = (IF Writer(p).handle \in DOMAIN fs
              THEN [fs EXCEPT ![Writer(p).handle].content =
                                    Overlay(Writer(p).content, @)]
              ELSE fs)
    /\ writers' = [writers EXCEPT ![p].pc = "replace", ![p].handle = ""]
    /\ UNCHANGED <<dirs, now, config_data, ssh_path, pc, args, unmanaged_content,
                   existing_blocks, all_configs, idx, final_content, backup_path,
                   stdout, exit_code, runs, outcomes, start_fs, start_dirs,
                   call_target, last_out, parsed_from, initial_target, backed_up,
                   parsed_blocks, listing, listed, edited>>

\* where a handle is after os.replace(src, dst)
handle_after_replace(handle, src, dst) ==
    IF src = dst THEN handle
    ELSE IF handle = src THEN dst
    ELSE IF handle = dst THEN Unlinked
    ELSE handle

\* temp_path.replace(ssh_path) of process p; FileNotFoundError when the other
\* process has renamed the temporary file away, which ends the run of p
Two_Replace(p) ==
    /\ Writer(p).pc = "replace"
    /\ IF temp_path(ssh_path) \in DOMAIN fs
       THEN /\ fs' = Rename(fs, temp_path(ssh_path), ssh_path)
            /\ writers' = [q \in {1, 2} |->
                    [pc |-> IF q = p THEN "chmod" ELSE Writer(q).pc,
                     content |-> Writer(q).content,
                     handle |-> handle_after_replace(Writer(q).handle,
                                        temp_path(ssh_path), ssh_path)]]
       ELSE /\ writers' = [writers EXCEPT ![p].pc = "failed"]
            /\ UNCHANGED fs
    /\ UNCHANGED <<dirs, now, config_data, ssh_path, pc, args, unmanaged_content,
                   existing_blocks, all_configs, idx, final_content, backup_path,
                   stdout, exit_code, runs, outcomes, start_fs, start_dirs,
                   call_target, last_out, parsed_from, initial_target, backed_up,
                   parsed_blocks, listing, listed, edited>>

\* ssh_path.chmod(0o600) of process p
Two_Chmod(p) ==
    /\ Writer(p).pc = "chmod"
    /\ fs' = [fs EXCEPT ![ssh_path].mode = OwnerOnlyMode]
    /\ writers' = [writers EXCEPT ![p].pc = "done"]
    /\ UNCHANGED <<dirs, now, config_data, ssh_path, pc, args, unmanaged_content,
                   existing_blocks, all_configs, idx, final_content, backup_path,
                   stdout, exit_code, runs, outcomes, start_fs, start_dirs,
                   call_target, last_out, parsed_from, initial_target, backed_up,
                   parsed_blocks, listing, listed, edited>>

NextTwo ==
    \E p \in {1, 2} :
        \/ Two_Open(p)
        \/ Two_Write(p)
        \/ Two_Replace(p)
        \/ Two_Chmod(p)

SpecTwo == InitTwo /\ [][NextTwo]_vars

\* C18: while two non-dry-run writer passes on one target interleave step by
\* step, the target holds the complete content of one of the two runs or the
\* complete prior content, never an empty, cut or mixed file
C18_InterleavedAtomic ==
    TextOf(Target) \in {TextOf(initial_target), writers[1].content, writers[2].content}
----------------------------------------------------------------------------
(* What a run keeps of the file it read *)

\* C19: after a non-dry run, a managed block of the prior file is in the new
\* file only if a block of its name was generated in this run; the blocks of
\* entries that were skipped, failed or returned nothing are gone, and so
\* are all blocks when --asg names no entry
C19_StaleRemoved ==
    (pc = "done" /\ ~args.dry_run) =>
        \A n \in existing_blocks :
            n \in parse_content(Target.content).blocks => n \in BlockNames(all_configs)

\* what another program leaves in the target when it rewrites it
EditedText(text) == <<"Host edited">> \o text

\* another program rewrites the target while a non-dry run is between the
\* parser's read and the writer's replace
Edit ==
    /\ pc \in {"loop", "write", "copy", "build", "mkdir", "open", "fwrite", "replace"}
    /\ ~args.dry_run
    /\ ~edited.done
    /\ ssh_path \in DOMAIN fs
    /\ fs' = [fs EXCEPT ![ssh_path].content = EditedText(@)]
    /\ edited' = [done |-> TRUE, content |-> EditedText(fs[ssh_path].content),
                  at |-> pc]
    /\ UNCHANGED <<dirs, now, config_data, ssh_path, pc, args, unmanaged_content,
                   existing_blocks, all_configs, idx, final_content, backup_path,
                   stdout, exit_code, runs, outcomes, start_fs, start_dirs,
                   call_target, last_out, parsed_from, initial_target, backed_up,
                   parsed_blocks, listing, listed, writers>>

NextEdit ==
    \/ Next
    \/ Edit

\* the run the other program interferes with is the last one the bound on
\* the runs leaves; the target exists, can be read and is not a *.tmp file
InitEdit ==
    /\ ssh_path = "/home/u/.ssh/config"
    /\ config_data \in ConfigFiles
    /\ \E f \in {g \in InitialTargets : g.exists /\ Readable(g)} :
          /\ fs = Put(<<>>, ssh_path, f)
          /\ initial_target = f
    /\ dirs = {path_parent(ssh_path)}
    /\ now = 0
    /\ pc = "idle"
    /\ args = [dry_run |-> FALSE, asg |-> ""]
    /\ unmanaged_content = Line("")
    /\ existing_blocks = {}
    /\ all_configs = <<>>
    /\ idx = 1
    /\ final_content = Line("")
    /\ backup_path = ""
    /\ stdout = <<>>
    /\ exit_code = -1
    /\ runs = MaxRuns - 1
    /\ outcomes = <<>>
    /\ start_fs = fs
    /\ start_dirs = dirs
    /\ call_target = NoFile
    /\ last_out = NoRun
    /\ parsed_from = NoFile
    /\ backed_up = {}
    /\ parsed_blocks = <<>>
    /\ listing = <<>>
    /\ listed = <<>>
    /\ writers = <<>>
    /\ edited = NoEdit

SpecEdit == InitEdit /\ [][NextEdit]_vars

\* C20: when the target is modified between the parser's read and the
\* writer's replace, the modification is not in the new target, and the
\* backup of the run, if it took one, holds the modified content
C20_DerivedFromRead ==
    (pc = "done" /\ ~args.dry_run /\ edited.done) =>
        /\ \A k \in 1..Len(Target.content) : Target.content[k] # "Host edited"
        /\ backup_path # "" => fs[backup_path].content = edited.content
====
